---------------------------- MODULE Spec2Model ----------------------------
(***************************************************************************)
(* Authentication core of the Trades Marketplace API (src/main.py):       *)
(* the base64 codec, the signer, the credential hasher, the token service *)
(* and the three handlers built on them (register, login, me).            *)
(*                                                                         *)
(* Text is a sequence of character codes (ASCII), bytes are 0..255.        *)
(* A Python str of the model's alphabet and its UTF-8 bytes are the same   *)
(* sequence, so .encode() / .decode() leave the sequence as it is.         *)
(***************************************************************************)
EXTENDS Integers, Sequences, FiniteSets, TLC

VARIABLES now, held, last, wasRejected, account, uniqueIndex, pwOf, pc, local, resp

vars == <<now, held, last, wasRejected, account, uniqueIndex, pwOf, pc, local, resp>>

---------------------------------------------------------------------------
(* Bounds of the model.                                                    *)

\* clock resolution: instants per second (time.time() is fractional)
TicksPerSecond == 4
\* the first instant of the model, in whole seconds since the epoch
StartSecond == 5
\* how many instants after the first one (and after each expiry) are modelled
MaxTick == 3
\* request-handling threads running handlers concurrently
NumWorkers == 2
\* documents the account collection may grow to
MaxAccounts == 2

---------------------------------------------------------------------------
(* Program constants.                                                      *)

TOKEN_EXP_SECONDS == 604800
SALT_BYTES == 16
DIGEST_BYTES == 32
HMAC_BLOCK_BYTES == 64

SECRET_KEY == <<100,101,118,45,115,101,99,114,101,116,45,107,101,121>>  \* "dev-secret-key"

---------------------------------------------------------------------------
(* Text helpers.                                                           *)

\* the members of a finite set of positions, in increasing order
Sorted(S) ==
    [k \in 1..Cardinality(S) |-> CHOOSE p \in S : Cardinality({q \in S : q < p}) = k - 1]

\* str.split(sep) for a one-character separator: the parts, in order
Split(s, sep) ==
    LET at == Sorted({i \in 1..Len(s) : s[i] = sep})
        n == Len(at)
    IN [k \in 1..(n + 1) |->
            SubSeq(s, IF k = 1 THEN 1 ELSE at[k - 1] + 1, IF k = n + 1 THEN Len(s) ELSE at[k] - 1)]

\* bytes.rstrip(b"=") / str.rstrip of one character
RECURSIVE RStrip(_, _)
RStrip(s, c) ==
    IF s # <<>> /\ s[Len(s)] = c THEN RStrip(SubSeq(s, 1, Len(s) - 1), c) ELSE s

RECURSIVE LStrip(_, _)
LStrip(s, c) == IF s # <<>> /\ Head(s) = c THEN LStrip(Tail(s), c) ELSE s

\* str.strip() over the whitespace of the model's alphabet (the space)
Strip(s) == RStrip(LStrip(s, 32), 32)

\* str.replace(old, ""): every occurrence of old removed.  old has no proper
\* prefix that is also its suffix ("Bearer "), so its occurrences never overlap.
RemoveAll(s, old) ==
    LET n == Len(old)
        occ == {i \in 1..(Len(s) - n + 1) : SubSeq(s, i, i + n - 1) = old}
        Kept(e) == \A i \in occ : e[1] < i \/ e[1] >= i + n
        left == SelectSeq([i \in 1..Len(s) |-> <<i, s[i]>>], Kept)
    IN [k \in 1..Len(left) |-> left[k][2]]

---------------------------------------------------------------------------
(* Codec: base64, standard and URL-safe alphabets.                         *)

\* the character of 6-bit value v
B64Char(v, urlsafe) ==
    IF v < 26 THEN 65 + v
    ELSE IF v < 52 THEN 97 + (v - 26)
    ELSE IF v < 62 THEN 48 + (v - 52)
    ELSE IF v = 62 THEN (IF urlsafe THEN 45 ELSE 43)
    ELSE (IF urlsafe THEN 95 ELSE 47)

\* the 6-bit value of a character of the standard alphabet, 64 for any other
B64Value(c) ==
    IF c >= 65 /\ c <= 90 THEN c - 65
    ELSE IF c >= 97 /\ c <= 122 THEN c - 97 + 26
    ELSE IF c >= 48 /\ c <= 57 THEN c - 48 + 52
    ELSE IF c = 43 THEN 62
    ELSE IF c = 47 THEN 63
    ELSE 64

\* base64.b64encode / base64.urlsafe_b64encode: every 3 bytes give 4
\* characters; a last group of 1 or 2 bytes is padded with "="
B64Encode(bs, urlsafe) ==
    LET n == Len(bs)
        Byte(i) == IF i <= n THEN bs[i] ELSE 0
    IN [j \in 1..(4 * ((n + 2) \div 3)) |->
          LET g == 3 * ((j - 1) \div 4)
              q == (j - 1) % 4
          IN IF q = 0 THEN B64Char(Byte(g + 1) \div 4, urlsafe)
             ELSE IF q = 1 THEN B64Char((Byte(g + 1) % 4) * 16 + Byte(g + 2) \div 16, urlsafe)
             ELSE IF q = 2 THEN
                 IF g + 2 > n THEN 61
                 ELSE B64Char((Byte(g + 2) % 16) * 4 + Byte(g + 3) \div 64, urlsafe)
             ELSE IF g + 3 > n THEN 61 ELSE B64Char(Byte(g + 3) % 64, urlsafe)]

IsB64(c) == B64Value(c) < 64

\* binascii.a2b_base64 in its default, non-strict mode.  Characters outside
\* the alphabet are skipped.  A "=" read while the current quad holds 2 or 3
\* characters counts as a pad, and the pad that completes the quad ends the
\* input (what follows is ignored).  Input that ends inside a quad is an
\* error (raises binascii.Error).
A2B(s) ==
    LET Quad(i) == Len(SelectSeq(SubSeq(s, 1, i - 1), IsB64)) % 4
        eqs == {i \in 1..Len(s) : s[i] = 61}
        Pads(i) == Cardinality({j \in eqs : j < i /\ SelectSeq(SubSeq(s, j + 1, i - 1), IsB64) = <<>>})
        stops == {i \in eqs : Quad(i) >= 2 /\ Quad(i) + Pads(i) + 1 >= 4}
        end == IF stops = {} THEN Len(s) ELSE (CHOOSE i \in stops : \A j \in stops : i <= j) - 1
        data == SelectSeq(SubSeq(s, 1, end), IsB64)
        n == Len(data)
        V(i) == B64Value(data[i])
        nbytes == 3 * (n \div 4) + (IF n % 4 = 0 THEN 0 ELSE (n % 4) - 1)
    IN [ok |-> stops # {} \/ n % 4 = 0,
        bytes |-> [k \in 1..nbytes |->
            LET g == 4 * ((k - 1) \div 3)
                r == (k - 1) % 3
            IN IF r = 0 THEN V(g + 1) * 4 + V(g + 2) \div 16
               ELSE IF r = 1 THEN (V(g + 2) % 16) * 16 + V(g + 3) \div 4
               ELSE (V(g + 3) % 4) * 64 + V(g + 4)]]

\* base64.b64decode(s)
B64Decode(s) == A2B(s)

\* base64.urlsafe_b64decode(s): "-" and "_" are translated to "+" and "/" first
UrlsafeB64Decode(s) ==
    B64Decode([i \in 1..Len(s) |-> IF s[i] = 45 THEN 43 ELSE IF s[i] = 95 THEN 47 ELSE s[i]])

\* _b64url(data)
b64url(data) == RStrip(B64Encode(data, TRUE), 61)

---------------------------------------------------------------------------
(* JSON values: text, integers, and flat objects of text and integers.    *)
(* An object is the sequence of its items, in insertion order (a dict).   *)

JStr(s) == [t |-> "str", s |-> s, n |-> 0]
JInt(n) == [t |-> "int", s |-> <<>>, n |-> n]
Item(k, v) == [k |-> k, v |-> v]

\* dict lookup: the last item stored under the key decides
HasKey(d, k) == \E i \in 1..Len(d) : d[i].k = k
Lookup(d, k) ==
    LET i == CHOOSE j \in 1..Len(d) : d[j].k = k /\ \A m \in (j+1)..Len(d) : d[m].k # k
    IN d[i].v

\* str(n) for an integer
RECURSIVE Digits(_)
Digits(n) == IF n < 10 THEN <<48 + n>> ELSE Append(Digits(n \div 10), 48 + (n % 10))

IntToStr(n) == IF n < 0 THEN <<45>> \o Digits(-n) ELSE Digits(n)

\* json.dumps of a str of printable ASCII: quoted, with " and \ escaped
RECURSIVE EscapeStr(_)
EscapeStr(s) ==
    IF s = <<>> THEN <<>>
    ELSE IF Head(s) = 34 \/ Head(s) = 92 THEN <<92, Head(s)>> \o EscapeStr(Tail(s))
    ELSE <<Head(s)>> \o EscapeStr(Tail(s))

DumpsStr(s) == <<34>> \o EscapeStr(s) \o <<34>>

DumpsValue(v) == IF v.t = "str" THEN DumpsStr(v.s) ELSE IntToStr(v.n)

\* json.dumps(dict) with the default separators ", " and ": "
RECURSIVE DumpsItems(_)
DumpsItems(d) ==
    IF d = <<>> THEN <<>>
    ELSE DumpsStr(Head(d).k) \o <<58, 32>> \o DumpsValue(Head(d).v)
         \o (IF Len(d) > 1 THEN <<44, 32>> ELSE <<>>) \o DumpsItems(Tail(d))

JsonDumps(d) == <<123>> \o DumpsItems(d) \o <<125>>

\* json.loads: a recursive-descent parser over positions of the text.
\* Every parse step yields [ok, pos, val]; ok = FALSE is json.JSONDecodeError.
\* Modelled grammar: objects whose values are strings or integers, strings with
\* the escapes \" \\ \/, integers; floats, literals, arrays and nested objects
\* (never produced by create_token) are not modelled and count as errors.
IsWs(c) == c = 32 \/ c = 9 \/ c = 10 \/ c = 13
IsDigit(c) == c >= 48 /\ c <= 57

RECURSIVE SkipWs(_, _)
SkipWs(s, i) == IF i <= Len(s) /\ IsWs(s[i]) THEN SkipWs(s, i + 1) ELSE i

Fail == [ok |-> FALSE, pos |-> 0, val |-> JInt(0)]

\* i is the position after the opening quote
RECURSIVE ParseStr(_, _, _)
ParseStr(s, i, acc) ==
    IF i > Len(s) THEN Fail
    ELSE IF s[i] = 34 THEN [ok |-> TRUE, pos |-> i + 1, val |-> JStr(acc)]
    ELSE IF s[i] < 32 THEN Fail
    ELSE IF s[i] = 92 THEN
        IF i + 1 <= Len(s) /\ s[i + 1] \in {34, 92, 47}
        THEN ParseStr(s, i + 2, Append(acc, s[i + 1]))
        ELSE Fail
    ELSE ParseStr(s, i + 1, Append(acc, s[i]))

RECURSIVE ParseDigits(_, _, _)
ParseDigits(s, i, acc) ==
    IF i <= Len(s) /\ IsDigit(s[i]) THEN ParseDigits(s, i + 1, acc * 10 + (s[i] - 48))
    ELSE [ok |-> TRUE, pos |-> i, val |-> JInt(acc)]

\* the integer r read, unless a fraction or an exponent follows it
IntResult(s, r, neg) ==
    IF ~r.ok THEN Fail
    ELSE IF r.pos <= Len(s) /\ s[r.pos] \in {46, 101, 69} THEN Fail
    ELSE [ok |-> TRUE, pos |-> r.pos, val |-> JInt(IF neg THEN -r.val.n ELSE r.val.n)]

\* the digits at position j: 0, or a nonzero digit and what follows
IntDigits(s, j) ==
    IF j > Len(s) \/ ~IsDigit(s[j]) THEN Fail
    ELSE IF s[j] = 48 THEN [ok |-> TRUE, pos |-> j + 1, val |-> JInt(0)]
    ELSE ParseDigits(s, j, 0)

\* -?(0|[1-9][0-9]*), not followed by a fraction or an exponent
ParseInt(s, i) ==
    IF i <= Len(s) /\ s[i] = 45 THEN IntResult(s, IntDigits(s, i + 1), TRUE)
    ELSE IntResult(s, IntDigits(s, i), FALSE)

ParseValue(s, i) ==
    IF i > Len(s) THEN Fail
    ELSE IF s[i] = 34 THEN ParseStr(s, i + 1, <<>>)
    ELSE ParseInt(s, i)

NoItems == [ok |-> FALSE, pos |-> 0, d |-> <<>>]

RECURSIVE ParseItems(_, _, _)

\* after an item's value v, at position e: "}" ends the object, "," goes on
AfterValue(s, e, items) ==
    IF e > Len(s) THEN NoItems
    ELSE IF s[e] = 125 THEN [ok |-> TRUE, pos |-> e + 1, d |-> items]
    ELSE IF s[e] = 44 THEN ParseItems(s, SkipWs(s, e + 1), items)
    ELSE NoItems

\* the value v read for key k
WithValue(s, k, v, acc) ==
    IF ~v.ok THEN NoItems ELSE AfterValue(s, SkipWs(s, v.pos), Append(acc, Item(k.val.s, v.val)))

\* after key k, at position c: a ":" and the value
AfterKey(s, k, c, acc) ==
    IF c <= Len(s) /\ s[c] = 58 THEN WithValue(s, k, ParseValue(s, SkipWs(s, c + 1)), acc)
    ELSE NoItems

WithKey(s, k, acc) == IF ~k.ok THEN NoItems ELSE AfterKey(s, k, SkipWs(s, k.pos), acc)

\* i is the position of the next key's opening quote
ParseItems(s, i, acc) ==
    IF i > Len(s) \/ s[i] # 34 THEN NoItems ELSE WithKey(s, ParseStr(s, i + 1, <<>>), acc)

\* j is the position after "{" and the whitespace that follows it
ParseObject(s, j) ==
    IF j <= Len(s) /\ s[j] = 125 THEN [ok |-> TRUE, pos |-> j + 1, d |-> <<>>]
    ELSE ParseItems(s, j, <<>>)

\* nothing but whitespace may follow the value
LoadedObject(s, o) ==
    [ok |-> o.ok /\ SkipWs(s, o.pos) > Len(s), t |-> "dict", d |-> o.d, v |-> JInt(0)]

LoadedScalar(s, v) ==
    [ok |-> v.ok /\ SkipWs(s, v.pos) > Len(s), t |-> v.val.t, d |-> <<>>, v |-> v.val]

LoadsAt(s, i) ==
    IF i <= Len(s) /\ s[i] = 123 THEN LoadedObject(s, ParseObject(s, SkipWs(s, i + 1)))
    ELSE LoadedScalar(s, ParseValue(s, i))

\* json.loads(s): [ok, t, d, v]: t = "dict" with items d, or a scalar v
JsonLoads(s) == LoadsAt(s, SkipWs(s, 1))

---------------------------------------------------------------------------
(* Signer.  hashlib.sha256 and hmac are library primitives: the digest is  *)
(* modelled as a checksum of the message spread over DIGEST_BYTES bytes;   *)
(* the keying of HMAC (RFC 2104) is modelled as the library does it.       *)

\* the weight of the byte at position i, 0 past the end
Term(bs, i) == IF i <= Len(bs) THEN (bs[i] + 1) * (i * i + 3 * i + 1) ELSE 0

\* the weighted sum of the 8 bytes of block b (positions 8b+1..8b+8)
Block(bs, b) ==
    LET i == 8 * b
    IN ( Term(bs, i + 1) + Term(bs, i + 2) + Term(bs, i + 3) + Term(bs, i + 4)
       + Term(bs, i + 5) + Term(bs, i + 6) + Term(bs, i + 7) + Term(bs, i + 8) ) % 65521

\* the weighted sum of the blocks lo..hi
RECURSIVE BlockSum(_, _, _)
BlockSum(bs, lo, hi) ==
    IF lo > hi THEN 0
    ELSE IF lo = hi THEN Block(bs, lo)
    ELSE LET mid == (lo + hi) \div 2
         IN (BlockSum(bs, lo, mid) + BlockSum(bs, mid + 1, hi)) % 65521

\* hashlib.sha256(bs).digest()
Sha256(bs) ==
    LET h == (BlockSum(bs, 0, (Len(bs) + 7) \div 8) + 7 * Len(bs)) % 65521
    IN [i \in 1..DIGEST_BYTES |-> ((h + i) * (i + 2) + h \div 256) % 256]

\* HMAC step 1: a key longer than the block is hashed, then the key is
\* padded with zero bytes to the block size
KeyPrepare(key) ==
    LET k == IF Len(key) > HMAC_BLOCK_BYTES THEN Sha256(key) ELSE key
    IN [i \in 1..HMAC_BLOCK_BYTES |-> IF i <= Len(k) THEN k[i] ELSE 0]

\* the prepared key combined with a pad byte (ipad 0x36, opad 0x5c)
KeyPad(k, pad) == [i \in 1..Len(k) |-> (k[i] + pad) % 256]

\* hmac.new(key, msg, hashlib.sha256).digest()
HmacSha256(key, msg) ==
    LET k == KeyPrepare(key)
    IN Sha256(KeyPad(k, 92) \o Sha256(KeyPad(k, 54) \o msg))

\* _sign(data)
sign(data) == b64url(HmacSha256(SECRET_KEY, data))

---------------------------------------------------------------------------
(* Credential hasher.                                                      *)

\* hashlib.pbkdf2_hmac("sha256", password, salt, 100_000): the first block
\* HMAC(password, salt || INT(1)); the further rounds apply the same keyed
\* function to its own output and are folded into this one.
Pbkdf2HmacSha256(password, salt) == HmacSha256(password, salt \o <<0, 0, 0, 1>>)

\* hash_password(password, salt) with a salt given as text:
\* [raised, hash, salt]; raised = TRUE is binascii.Error from b64decode(salt)
HashWithSalt(password, salt) ==
    LET dec == B64Decode(salt)
    IN IF ~dec.ok THEN [raised |-> TRUE, hash |-> <<>>, salt |-> salt]
       ELSE [raised |-> FALSE,
             hash |-> B64Encode(Pbkdf2HmacSha256(password, dec.bytes), FALSE),
             salt |-> salt]

\* hash_password(password) with salt None: salt_bytes is what os.urandom(16)
\* returned; the salt is stored as its base64 text
HashFresh(password, salt_bytes) == HashWithSalt(password, B64Encode(salt_bytes, FALSE))

---------------------------------------------------------------------------
(* Identities (schemas.AuthUser) and the token service.                    *)

K_id == <<105,100>>
K_name == <<110,97,109,101>>
K_email == <<101,109,97,105,108>>
K_role == <<114,111,108,101>>
K_exp == <<101,120,112>>

\* schemas.Role = Literal["provider", "requester"]
Provider == <<112,114,111,118,105,100,101,114>>
Requester == <<114,101,113,117,101,115,116,101,114>>
Role == {Provider, Requester}

AuthUser(id, name, email, role) == [id |-> id, name |-> name, email |-> email, role |-> role]
NoUser == AuthUser(<<>>, <<>>, <<>>, <<>>)

\* EmailStr: one "@", a local part, and a domain with an inner dot
ValidEmail(s) ==
    LET parts == Split(s, 64)
    IN /\ Len(parts) = 2
       /\ parts[1] # <<>>
       /\ LET dom == Split(parts[2], 46)
          IN Len(dom) >= 2 /\ \A i \in 1..Len(dom) : dom[i] # <<>>

\* int(time.time()) at instant t (t counts instants of 1/TicksPerSecond s)
IntTime(t) == t \div TicksPerSecond

Dot == <<46>>

\* the payload dict create_token builds
PayloadOf(user, exp) ==
    << Item(K_id, JStr(user.id)), Item(K_name, JStr(user.name)),
       Item(K_email, JStr(user.email)), Item(K_role, JStr(user.role)),
       Item(K_exp, JInt(exp)) >>

HeaderDict == << Item(<<97,108,103>>, JStr(<<72,83,50,53,54>>)),
                 Item(<<116,121,112>>, JStr(<<74,87,84>>)) >>

\* a lifetime of one day
ExpAtOneDay(t) == IntTime(t) + 86400

\* the expiry create_token stores when called at instant t
ExpAt(t) == IntTime(t) + TOKEN_EXP_SECONDS

\* create_token(user) called at instant t
create_token(user, t) ==
    LET h == b64url(JsonDumps(HeaderDict))
        p == b64url(JsonDumps(PayloadOf(user, ExpAt(t))))
        s == sign(h \o Dot \o p)
    IN h \o Dot \o p \o Dot \o s

\* a signature check that compares the decoded digests, not the texts
SigMatchesDecoded(h, p, s) ==
    UrlsafeB64Decode(sign(h \o Dot \o p) \o <<61, 61>>).bytes = UrlsafeB64Decode(s \o <<61, 61>>).bytes

\* line 57: the signature check passes
SigMatches(h, p, s) == sign(h \o Dot \o p) = s

\* a decode that does not restore the padding _b64url stripped
DecodePayloadNoPad(p) == UrlsafeB64Decode(p)

\* line 59: the payload segment decoded; the padding "==" is always added
DecodePayload(p) == UrlsafeB64Decode(p \o <<61, 61>>)

\* an expiry check that never fires
NeverExpired(exp, t) == FALSE

\* line 60: payload.get("exp", 0) < time.time() at instant t
Expired(exp, t) == exp * TicksPerSecond < t

\* line 62, schemas.AuthUser: four texts, an e-mail, a role of the set
ValidAuthUser(d) ==
    /\ \A k \in {K_id, K_name, K_email, K_role} : Lookup(d, k).t = "str"
    /\ ValidEmail(Lookup(d, K_email).s)
    /\ Lookup(d, K_role).s \in Role

Outcome(kind, user, why) == [kind |-> kind, user |-> user, why |-> why]

\* line 62: the identity built from the payload dict d
UserOf(d) ==
    IF \E k \in {K_id, K_name, K_email, K_role} : ~HasKey(d, k)
    THEN Outcome("raise", NoUser, "KeyError")
    ELSE IF ~ValidAuthUser(d) THEN Outcome("raise", NoUser, "ValidationError")
    ELSE Outcome("user",
                 AuthUser(Lookup(d, K_id).s, Lookup(d, K_name).s,
                          Lookup(d, K_email).s, Lookup(d, K_role).s),
                 "ok")

\* lines 60-61: the expiry check on the value exp of the payload dict d
CheckExp(d, exp, t) ==
    IF exp.t # "int" THEN Outcome("raise", NoUser, "TypeError")
    ELSE IF Expired(exp.n, t) THEN Outcome("none", NoUser, "expired")
    ELSE UserOf(d)

\* line 60: payload.get("exp", 0) on what json.loads returned
CheckPayload(js, t) ==
    IF ~js.ok THEN Outcome("raise", NoUser, "JSONDecodeError")
    ELSE IF js.t # "dict" THEN Outcome("raise", NoUser, "AttributeError")
    ELSE CheckExp(js.d, IF HasKey(js.d, K_exp) THEN Lookup(js.d, K_exp) ELSE JInt(0), t)

\* line 59: json.loads of the decoded payload segment
CheckDecoded(dec, t) ==
    IF ~dec.ok THEN Outcome("raise", NoUser, "binascii.Error")
    ELSE CheckPayload(JsonLoads(dec.bytes), t)

\* lines 54-58: the part count and the signature
CheckParts(parts, t) ==
    IF Len(parts) # 3 THEN Outcome("none", NoUser, "parts")
    ELSE IF ~SigMatches(parts[1], parts[2], parts[3])
    THEN Outcome("none", NoUser, "signature")
    ELSE CheckDecoded(DecodePayload(parts[2]), t)

\* the body of verify_token's try block at instant t:
\* kind "user" (returned identity), "none" (returned None), "raise" (an
\* exception left the block); why names what decided
VerifyBody(token, t) == CheckParts(Split(token, 46), t)

\* no except clause: what the body raised leaves verify_token
NotCaught(r) == r

\* try ... except Exception: return None
Caught(r) == IF r.kind = "raise" THEN Outcome("none", NoUser, r.why) ELSE r

\* verify_token(token) at instant t
verify_token(token, t) == Caught(VerifyBody(token, t))

---------------------------------------------------------------------------
(* The /me handler.                                                        *)

Bearer == <<66,101,97,114,101,114,32>>

NoHeader == [present |-> FALSE, value |-> <<>>]
HeaderValue(s) == [present |-> TRUE, value |-> s]

Response(status, detail, user, token) ==
    [status |-> status, detail |-> detail, user |-> user, token |-> token]

\* line 162: the token text me() hands to verify_token
BearerToken(authorization) == Strip(RemoveAll(authorization.value, Bearer))

\* a response that tells why the token was refused
MeResponseWithReason(r) ==
    IF r.kind # "user" THEN Response(401, r.why, NoUser, <<>>)
    ELSE Response(200, "", r.user, <<>>)

\* lines 163-166: the response for what verify_token returned
MeResponse(r) ==
    IF r.kind # "user" THEN Response(401, "Invalid token", NoUser, <<>>)
    ELSE Response(200, "", r.user, <<>>)

\* me(authorization) at instant t
me(authorization, t) ==
    IF ~authorization.present \/ authorization.value = <<>>
    THEN Response(401, "Missing Authorization header", NoUser, <<>>)
    ELSE MeResponse(verify_token(BearerToken(authorization), t))

---------------------------------------------------------------------------
(* Inputs of the token service.                                            *)

EmailA == <<97,64,120,46,99>>
EmailB == <<98,64,120,46,99>>

\* identities: {id "1", name A, a@x.c, provider}, {id "2", name "\, b@x.c, requester}
Users == { AuthUser(<<49>>, <<65>>, EmailA, Provider),
           AuthUser(<<50>>, <<34, 92>>, EmailB, Requester) }

\* the instants of the model: the first ones, and those around the expiry
\* of a token issued in the first second
FirstInstant == StartSecond * TicksPerSecond
EarlyInstants == FirstInstant..(FirstInstant + MaxTick)
LateInstants ==
    { (StartSecond + TOKEN_EXP_SECONDS) * TicksPerSecond + d : d \in (-1)..MaxTick }
Instants == EarlyInstants \cup LateInstants

UrlValue(c) == IF c = 45 THEN 62 ELSE IF c = 95 THEN 63 ELSE B64Value(c)

\* a token text signed with the process secret over the given payload bytes
Forge(payloadBytes) ==
    LET h == b64url(JsonDumps(HeaderDict))
        p == b64url(payloadBytes)
    IN h \o Dot \o p \o Dot \o sign(h \o Dot \o p)

\* a token text whose payload segment is the given text, signed correctly
ForgeSegment(p) ==
    LET h == b64url(JsonDumps(HeaderDict)) IN h \o Dot \o p \o Dot \o sign(h \o Dot \o p)

\* the token with the character at position i of its signature replaced by c
Tamper(tok, i, c) ==
    LET parts == Split(tok, 46)
    IN parts[1] \o Dot \o parts[2] \o Dot \o [parts[3] EXCEPT ![i] = c]

\* the signature positions tampered with, and the replacement characters:
\* the next character of the alphabet, "." and "="
TamperPositions(sig) == {1, (Len(sig) + 1) \div 2, Len(sig)}
Replacements(c) == {B64Char((UrlValue(c) + 1) % 64, TRUE), 46, 61}

Cand(tag, tok) == [tag |-> tag, tok |-> tok]

Without(d, k) == SelectSeq(d, LAMBDA it : it.k # k)

\* a signature that is not the one of the token: its first character changed
BadSig(tok) == Tamper(tok, 1, B64Char((UrlValue(Split(tok, 46)[3][1]) + 1) % 64, TRUE))

\* token texts presented at instant t by the holder h of an issued token
Candidates(h, t) ==
    LET parts == Split(h.tok, 46)
        pay == PayloadOf(h.user, ExpAt(h.t0))
        past == PayloadOf(h.user, IntTime(t) - 1)
    IN  { Cand("issued", h.tok) }
        \cup UNION { { Cand("sigflip", Tamper(h.tok, i, c)) : c \in Replacements(parts[3][i]) } :
                        i \in TamperPositions(parts[3]) }
        \cup { Cand("one_part", parts[1]),
               Cand("two_parts", parts[1] \o Dot \o parts[2]),
               Cand("four_parts", h.tok \o Dot \o parts[3]),
               Cand("empty", <<>>) }
        \cup { Cand("past_signed", Forge(JsonDumps(past))),
               Cand("past_unsigned", BadSig(Forge(JsonDumps(past)))),
               Cand("payload_swapped",
                    parts[1] \o Dot \o b64url(JsonDumps(past)) \o Dot \o parts[3]) }
        \cup { Cand("missing_field", Forge(JsonDumps(Without(pay, k)))) :
                 k \in {K_id, K_name, K_email, K_role, K_exp} }
        \cup { Cand("bad_role", Forge(JsonDumps(PayloadOf([h.user EXCEPT !.role = <<97,100,109,105,110>>], ExpAt(h.t0))))),
               Cand("bad_email", Forge(JsonDumps(PayloadOf([h.user EXCEPT !.email = <<97,120>>], ExpAt(h.t0))))),
               Cand("exp_text", Forge(JsonDumps([pay EXCEPT ![5] = Item(K_exp, JStr(<<55>>))]))),
               Cand("not_json", Forge(<<97,98,99>>)),
               Cand("not_object", Forge(<<49,50>>)),
               Cand("not_base64", ForgeSegment(<<97>>)) }

\* Authorization headers sent to /me at instant t
Headers(h, t) ==
    LET parts == Split(h.tok, 46)
        past == PayloadOf(h.user, IntTime(t) - 1)
    IN { NoHeader, HeaderValue(<<>>), HeaderValue(Bearer), HeaderValue(h.tok),
         HeaderValue(Bearer \o h.tok),
         HeaderValue(Bearer \o parts[1] \o Dot \o parts[2]),
         HeaderValue(Bearer \o Tamper(h.tok, 1, 61)),
         HeaderValue(Bearer \o Forge(JsonDumps(past))),
         HeaderValue(Bearer \o Forge(JsonDumps(Without(past, K_id)))),
         HeaderValue(Bearer \o ForgeSegment(<<97>>)) }

---------------------------------------------------------------------------
(* State of the token service model.                                       *)
(*   now        the wall clock, in instants of 1/TicksPerSecond seconds    *)
(*   held       the token a client holds: its text, identity, issue time   *)
(*   last       the call observed last: its input, instant and outcome     *)
(*   wasRejected whether verify_token has rejected the held token before    *)
(* last and wasRejected record what was observed; no handler reads them.    *)

NoHeld == [some |-> FALSE, tok |-> <<>>, user |-> NoUser, t0 |-> 0]

Idle == [op |-> "idle", tag |-> "", token |-> <<>>, at |-> 0,
         res |-> Outcome("none", NoUser, ""), rsp |-> Response(0, "", NoUser, <<>>)]


\* time.time() moves on, to any later instant of the model
Tick ==
    /\ \E t \in Instants : t > now /\ now' = t
    /\ last' = Idle
    /\ UNCHANGED <<held, wasRejected, account, uniqueIndex, pwOf, pc, local, resp>>

\* create_token(user): the client keeps the token it is given
Issue ==
    /\ \E u \in Users :
         held' = [some |-> TRUE, tok |-> create_token(u, now), user |-> u, t0 |-> now]
    /\ last' = Idle
    /\ wasRejected' = FALSE
    /\ UNCHANGED <<now, account, uniqueIndex, pwOf, pc, local, resp>>

\* verify_token(token) on a token text the holder presents
Verify ==
    /\ held.some
    /\ last.op = "idle"
    /\ \E c \in Candidates(held, now) :
         LET r == verify_token(c.tok, now) IN
         /\ last' = [op |-> "verify", tag |-> c.tag, token |-> c.tok, at |-> now,
                     res |-> r, rsp |-> Response(0, "", NoUser, <<>>)]
         /\ wasRejected' = (wasRejected \/ (c.tok = held.tok /\ r.kind = "none"))
    /\ UNCHANGED <<now, held, account, uniqueIndex, pwOf, pc, local, resp>>

\* GET /me with an Authorization header; res records what verify_token
\* returns for the token text of the header, when the handler gets that far
Me ==
    /\ held.some
    /\ last.op = "idle"
    /\ \E a \in Headers(held, now) :
         LET called == a.present /\ a.value # <<>> IN
         last' = [op |-> "me", tag |-> IF called THEN "called" ELSE "no_header",
                  token |-> IF called THEN BearerToken(a) ELSE <<>>, at |-> now,
                  res |-> IF called THEN verify_token(BearerToken(a), now)
                          ELSE Outcome("none", NoUser, ""),
                  rsp |-> me(a, now)]
    /\ UNCHANGED <<now, held, wasRejected, account, uniqueIndex, pwOf, pc, local, resp>>

---------------------------------------------------------------------------
(* Credential store and the handlers register and login.                   *)
(*   account  the documents of db["account"], in insertion order           *)
(*   uniqueIndex  whether the collection has a unique index on email        *)
(*   pwOf     for each document, the password it was registered with       *)
(*   pc       where each request-handling thread stands in register        *)
(*   local    the payload of the register request a thread is handling     *)
(*   resp     the response being sent                                      *)
(* pwOf and resp record what happened; no handler reads them.              *)

Workers == 1..NumWorkers

Doc(id, name, email, role, password_hash, salt) ==
    [id |-> id, name |-> name, email |-> email, role |-> role,
     password_hash |-> password_hash, salt |-> salt]

RegisterInput(name, email, password, role) ==
    [name |-> name, email |-> email, password |-> password, role |-> role]
LoginInput(email, password) == [email |-> email, password |-> password]

\* passwords: "p", "q", and "p" followed by a NUL character
Pw_p == <<112>>
Pw_q == <<113>>
Pw_p0 == <<112, 0>>

RegisterInputs ==
    { RegisterInput(<<65>>, EmailA, pw, Provider) : pw \in {Pw_p, Pw_q} }
    \cup { RegisterInput(<<66>>, EmailB, Pw_p, Requester) }

LoginInputs ==
    { LoginInput(EmailA, pw) : pw \in {Pw_p, Pw_q, Pw_p0} } \cup { LoginInput(EmailB, Pw_p) }

\* what os.urandom(16) may return
RandomSalts == { [i \in 1..SALT_BYTES |-> b] : b \in {17, 200} }

\* documents the collection may hold when the process starts, written by an
\* earlier deployment: salts "abc" (unpadded) and "!!!!" (outside the alphabet)
LegacyDocs ==
    { Doc(<<49>>, <<65>>, EmailA, Provider, <<120>>, s) : s \in { <<97,98,99>>, <<33,33,33,33>> } }

Unknown == [known |-> FALSE, pw |-> <<>>]
Known(pw) == [known |-> TRUE, pw |-> pw]

\* db["account"].find_one({"email": email}): the position of the first
\* document with that email, 0 for None
find_one(coll, email) ==
    IF \E i \in 1..Len(coll) : coll[i].email = email
    THEN CHOOSE i \in 1..Len(coll) :
           coll[i].email = email /\ \A j \in 1..(i - 1) : coll[j].email # email
    ELSE 0

\* db["account"].insert_one(doc): the document is appended
insert_one(coll, doc) == Append(coll, doc)

\* insert_one on a collection with a unique index on email raises
\* DuplicateKeyError for a document whose email is already stored
DuplicateKey(coll, doc, unique) == unique /\ find_one(coll, doc.email) # 0

\* str(res.inserted_id): ids are unique per document
InsertedId(coll) == IntToStr(Len(coll) + 1)

AuthResp(op, status, detail, user, token, req, found) ==
    [op |-> op, status |-> status, detail |-> detail, user |-> user, token |-> token,
     email |-> req.email, password |-> req.password, found |-> found]

NoResp == AuthResp("idle", 0, "", NoUser, <<>>, LoginInput(<<>>, <<>>), 0)

\* a hash recomputed without the stored salt (salt=None: a fresh one)
LoginHashFreshSalt(password, doc) == HashFresh(password, [i \in 1..SALT_BYTES |-> 17])

\* line 149: the hash recomputed under the stored salt
LoginHash(password, doc) == HashWithSalt(password, doc.salt)

\* line 150: the comparison with the stored hash
HashMatches(calc, doc) == calc.hash = doc.password_hash

\* lines 153-155: the identity and the token of a successful login
LoginOk(payload, doc, i, t) ==
    AuthResp("login", 200, "", AuthUser(doc.id, doc.name, doc.email, doc.role),
             create_token(AuthUser(doc.id, doc.name, doc.email, doc.role), t), payload, i)

\* lines 149-151, given the recomputed hash; an exception raised by
\* hash_password leaves the handler and the framework answers 500
LoginCheck(payload, doc, calc, i, t) ==
    IF calc.raised
    THEN AuthResp("login", 500, "Internal Server Error", NoUser, <<>>, payload, i)
    ELSE IF ~HashMatches(calc, doc)
    THEN AuthResp("login", 401, "Invalid credentials", NoUser, <<>>, payload, i)
    ELSE LoginOk(payload, doc, i, t)

LoginFound(coll, payload, i, t) ==
    IF i = 0 THEN AuthResp("login", 401, "Invalid credentials", NoUser, <<>>, payload, 0)
    ELSE LoginCheck(payload, coll[i], LoginHash(payload.password, coll[i]), i, t)

\* lines 141-155: login(payload) at instant t
login(coll, payload, t) == LoginFound(coll, payload, find_one(coll, payload.email), t)

\* lines 128-134: the document register stores
NewDoc(coll, payload, h) ==
    Doc(InsertedId(coll), payload.name, payload.email, payload.role, h.hash, h.salt)

\* lines 136-138: the response of a successful register
RegisterOk(payload, id, t, found) ==
    AuthResp("register", 200, "", AuthUser(id, payload.name, payload.email, payload.role),
             create_token(AuthUser(id, payload.name, payload.email, payload.role), t),
             payload, found)

\* POST /auth/register, lines 123-125: the look-up of the email
RegisterFind(w) ==
    /\ pc[w] = "idle"
    /\ resp = NoResp
    /\ \E payload \in RegisterInputs :
         IF find_one(account, payload.email) # 0
         THEN /\ resp' = AuthResp("register", 400, "Email already registered", NoUser, <<>>,
                                  payload, find_one(account, payload.email))
              /\ UNCHANGED <<pc, local>>
         ELSE /\ Len(account) + Cardinality({v \in Workers : pc[v] = "insert"}) < MaxAccounts
              /\ pc' = [pc EXCEPT ![w] = "insert"]
              /\ local' = [local EXCEPT ![w] = payload]
              /\ UNCHANGED resp
    /\ UNCHANGED <<now, held, last, wasRejected, account, uniqueIndex, pwOf>>

\* lines 135-138: insert_one and the response; DuplicateKeyError leaves the
\* handler and the framework answers 500
RegisterStore(w, doc) ==
    IF DuplicateKey(account, doc, uniqueIndex)
    THEN /\ resp' = AuthResp("register", 500, "Internal Server Error", NoUser, <<>>,
                             local[w], find_one(account, doc.email))
         /\ UNCHANGED <<account, pwOf>>
    ELSE /\ account' = insert_one(account, doc)
         /\ pwOf' = Append(pwOf, Known(local[w].password))
         /\ resp' = RegisterOk(local[w], doc.id, now, find_one(account, doc.email))

\* POST /auth/register, lines 127-138: hash, insert, token
RegisterInsert(w) ==
    /\ pc[w] = "insert"
    /\ resp = NoResp
    /\ \E salt_bytes \in RandomSalts :
         RegisterStore(w, NewDoc(account, local[w], HashFresh(local[w].password, salt_bytes)))
    /\ pc' = [pc EXCEPT ![w] = "idle"]
    /\ local' = [local EXCEPT ![w] = <<>>]
    /\ UNCHANGED <<now, held, last, wasRejected, uniqueIndex>>

\* POST /auth/login
Login ==
    /\ resp = NoResp
    /\ \E payload \in LoginInputs : resp' = login(account, payload, now)
    /\ UNCHANGED <<now, held, last, wasRejected, account, uniqueIndex, pwOf, pc, local>>

\* the response is sent
Deliver ==
    /\ resp # NoResp
    /\ resp' = NoResp
    /\ UNCHANGED <<now, held, last, wasRejected, account, uniqueIndex, pwOf, pc, local>>

---------------------------------------------------------------------------
(* Specifications.                                                         *)

Init ==
    /\ now = FirstInstant
    /\ held = NoHeld
    /\ last = Idle
    /\ wasRejected = FALSE
    /\ account = <<>>
    /\ uniqueIndex = FALSE
    /\ pwOf = <<>>
    /\ pc = [w \in Workers |-> "idle"]
    /\ local = [w \in Workers |-> <<>>]
    /\ resp = NoResp

Next == Tick \/ Issue \/ Verify \/ Me

\* the token service: the clock, issued tokens, verify_token and /me
Spec == Init /\ [][Next]_vars

AuthInit ==
    /\ now = FirstInstant
    /\ held = NoHeld
    /\ last = Idle
    /\ wasRejected = FALSE
    /\ account \in {<<>>} \cup { <<d>> : d \in LegacyDocs }
    /\ uniqueIndex \in BOOLEAN
    /\ pwOf = [i \in 1..Len(account) |-> Unknown]
    /\ pc = [w \in Workers |-> "idle"]
    /\ local = [w \in Workers |-> <<>>]
    /\ resp = NoResp

AuthNext ==
    \/ \E w \in Workers : RegisterFind(w)
    \/ \E w \in Workers : RegisterInsert(w)
    \/ Login
    \/ Deliver

\* the credential store with concurrent register and login requests
AuthSpec == AuthInit /\ [][AuthNext]_vars

---------------------------------------------------------------------------
(* What a token text carries, read off the text itself.                    *)

NoPayload == [ok |-> FALSE, d |-> <<>>]

DictFrom(js) == IF js.ok /\ js.t = "dict" THEN [ok |-> TRUE, d |-> js.d] ELSE NoPayload
PayloadFrom(dec) == IF ~dec.ok THEN NoPayload ELSE DictFrom(JsonLoads(dec.bytes))
PayloadOfParts(parts) ==
    IF Len(parts) # 3 THEN NoPayload ELSE PayloadFrom(UrlsafeB64Decode(parts[2] \o <<61, 61>>))

\* the payload dict of a three-part token text, when it decodes to one
TokenPayload(tok) == PayloadOfParts(Split(tok, 46))

SignedParts(parts) == Len(parts) = 3 /\ sign(parts[1] \o Dot \o parts[2]) = parts[3]

\* the third segment is _sign of the first two joined by "."
SignatureValid(tok) == SignedParts(Split(tok, 46))

HasIntExp(pl) == pl.ok /\ HasKey(pl.d, K_exp) /\ Lookup(pl.d, K_exp).t = "int"
ExpIn(pl) == Lookup(pl.d, K_exp).n

\* the payload holds id, name, email and role of an AuthUser, and an integer exp
CarriesIdentity(pl) ==
    /\ HasIntExp(pl)
    /\ \A k \in {K_id, K_name, K_email, K_role} : HasKey(pl.d, k)
    /\ ValidAuthUser(pl.d)

\* the payload's exp is an integer equal to n, before instant t, after instant t
ExpIs(pl, n) == HasIntExp(pl) /\ ExpIn(pl) = n
ExpBefore(pl, t) == HasIntExp(pl) /\ ExpIn(pl) * TicksPerSecond < t
ExpAfter(pl, t) == HasIntExp(pl) /\ ExpIn(pl) * TicksPerSecond > t

\* conditions (a) and (b): signed by _sign, and exp strictly after instant t
SignedAndExpAfter(tok, pl, t) == SignatureValid(tok) /\ ExpAfter(pl, t)

\* b is a with exactly one character changed, inside the signature segment
SignatureTampered(a, b) ==
    /\ Len(a) = Len(b)
    /\ Cardinality({i \in 1..Len(a) : a[i] # b[i]}) = 1
    /\ \A i \in 1..Len(a) : a[i] # b[i] => i > Len(a) - Len(Split(a, 46)[3])

---------------------------------------------------------------------------
(* Claims.                                                                 *)

\* C1: for every three-part token text whose payload carries an identity and
\* every instant, verify_token returns an identity if and only if the
\* signature is _sign of the first two segments and exp is strictly greater
\* than now; at now = exp the token is rejected.
C1_AcceptedIffSignedAndExpAfterNow ==
    (last.op = "verify" /\ CarriesIdentity(TokenPayload(last.token)))
        => ( last.res.kind = "user"
             <=> SignedAndExpAfter(last.token, TokenPayload(last.token), last.at) )

\* C2: verify_token of the token create_token issued for identity I, at any
\* instant before its exp, returns an identity with I's id, name, email, role.
C2_RoundTrip ==
    (last.op = "verify" /\ held.some /\ last.token = held.tok
       /\ last.at < ExpAt(held.t0) * TicksPerSecond)
        => (last.res.kind = "user" /\ last.res.user = held.user)

\* an issued token whose name needs JSON escapes verified late in its window
C2_Witness ==
    /\ last.op = "verify" /\ held.some /\ last.token = held.tok
    /\ held.user.name = <<34, 92>>
    /\ last.at \in LateInstants /\ last.at < ExpAt(held.t0) * TicksPerSecond
    /\ last.res.kind = "user"

\* C3: an issued token with one character of its signature segment changed
\* is rejected by verify_token, at every instant.
C3_TamperedSignatureRejected ==
    (last.op = "verify" /\ held.some /\ SignatureTampered(held.tok, last.token))
        => last.res.kind = "none"

\* the last signature character replaced by one that decodes to the same
\* digest bytes, presented while the token is still valid
C3_Witness ==
    /\ last.op = "verify" /\ held.some /\ SignatureTampered(held.tok, last.token)
    /\ last.token[Len(last.token)] # held.tok[Len(held.tok)]
    /\ IsB64(last.token[Len(last.token)])
    /\ last.at < ExpAt(held.t0) * TicksPerSecond
    /\ last.res.kind = "none"

\* C4: a token whose payload exp is before now is rejected by verify_token,
\* whether or not its signature is valid.
C4_PastExpRejected ==
    (last.op = "verify" /\ ExpBefore(TokenPayload(last.token), last.at))
        => last.res.kind = "none"

\* a correctly signed token with exp = now - 1 is rejected
C4_Witness ==
    /\ last.op = "verify" /\ last.tag = "past_signed"
    /\ SignatureValid(last.token)
    /\ ExpIs(TokenPayload(last.token), IntTime(last.at) - 1)
    /\ last.res.kind = "none"

\* C5: verify_token is total: no exception leaves it, and a token text with a
\* wrong part count, an undecodable or non-JSON payload, a missing field or a
\* role outside the set yields None.
C5_VerifyTotal ==
    last.op = "verify"
        => /\ last.res.kind \in {"user", "none"}
           /\ ~CarriesIdentity(TokenPayload(last.token))
                => (last.res.kind = "none" /\ last.res.user = NoUser)

\* a correctly signed payload without one of its fields: the KeyError is caught
C5_Witness ==
    /\ last.op = "verify" /\ last.tag = "missing_field"
    /\ SignatureValid(last.token)
    /\ last.res.why = "KeyError" /\ last.res.kind = "none"

\* C8 (as the claim reads): a token issued at t0 carries exp = t0 + 604800 s,
\* is accepted at every instant t0 <= t < t0 + 604800 s, and once rejected it
\* is never accepted again.
C8_LifetimeFromIssueInstant ==
    held.some =>
        /\ ExpAt(held.t0) * TicksPerSecond = held.t0 + TOKEN_EXP_SECONDS * TicksPerSecond
        /\ (last.op = "verify" /\ last.token = held.tok
              /\ last.at < held.t0 + TOKEN_EXP_SECONDS * TicksPerSecond)
             => last.res.kind = "user"
        /\ (last.op = "verify" /\ last.token = held.tok /\ last.res.kind = "user")
             => ~wasRejected

\* C8 (amended): a token issued at t0 carries exp = the whole seconds of t0
\* + 604800, is accepted at every instant t0 <= t < exp, and once rejected
\* it is never accepted again.
C8_LifetimeFromIssueSecond ==
    held.some =>
        /\ ExpIs(TokenPayload(held.tok), IntTime(held.t0) + TOKEN_EXP_SECONDS)
        /\ (last.op = "verify" /\ last.token = held.tok
              /\ last.at < (IntTime(held.t0) + TOKEN_EXP_SECONDS) * TicksPerSecond)
             => last.res.kind = "user"
        /\ (last.op = "verify" /\ last.token = held.tok /\ last.res.kind = "user")
             => ~wasRejected

\* a token issued inside a second, rejected as expired a second time
C8_Witness ==
    /\ held.some /\ held.t0 % TicksPerSecond # 0
    /\ last.op = "verify" /\ last.token = held.tok
    /\ last.res.kind = "none" /\ last.res.why = "expired"
    /\ last.at > ExpAt(held.t0) * TicksPerSecond + 1
    /\ wasRejected

\* C9: every token text verify_token rejects gets the same returned value
\* (None), and /me answers each with the same status and detail.
C9_NoReasonLeak ==
    /\ (last.op = "verify" /\ last.res.kind # "user")
         => (last.res.kind = "none" /\ last.res.user = NoUser)
    /\ (last.op = "me" /\ last.tag = "called" /\ last.res.kind # "user")
         => last.rsp = Response(401, "Invalid token", NoUser, <<>>)

\* /me refusing an expired, correctly signed token
C9_Witness ==
    /\ last.op = "me" /\ last.tag = "called"
    /\ last.res.why = "expired"
    /\ last.rsp.status = 401

\* the stored salt is not the base64 text of any bytes
MalformedSalt(s) == ~B64Decode(s).ok \/ B64Encode(B64Decode(s).bytes, FALSE) # s

\* C6: a login that finds a credential record with a malformed salt ends in
\* 401 "Invalid credentials", not in an uncaught exception.
C6_MalformedSaltIsInvalidCredentials ==
    (resp.op = "login" /\ resp.found > 0 /\ MalformedSalt(account[resp.found].salt))
        => (resp.status = 401 /\ resp.detail = "Invalid credentials")

C10_EmailUnique ==
    /\ \A i, j \in 1..Len(account) : i # j => account[i].email # account[j].email
    /\ (resp.op = "register" /\ resp.found > 0) => resp.status = 400

===========================================================================
